---- MODULE Spec2Model ----
(***************************************************************************)
(* Model of src/main.rs of free-ugc-bulk-purchaser: the bootstrap of the   *)
(* anti-forgery token, the catalog pagination loop of main, the            *)
(* eligibility filter is_asset_available and the recursive retry machine   *)
(* attempt_purchase.  The remote server is the environment: every answer   *)
(* it can give is drawn from a small set by \E.                            *)
(***************************************************************************)
EXTENDS Integers, Sequences, FiniteSets, TLC

(***************************************************************************)
(* Bounds of the model.                                                    *)
(***************************************************************************)
\* Longest item list of one catalog page.
MaxPageLen == 2
\* Largest number of catalog pages the server serves in one run.
MaxFetches == 2
\* Deepest recursion of attempt_purchase (retries of one item).
MaxRetries == 2
\* Longest error list of one purchase response.
MaxErrs == 2

(***************************************************************************)
(* Option<T>: None is the empty sequence, Some(x) the one-element one.     *)
(***************************************************************************)
None == <<>>
Some(x) == <<x>>
is_none(o) == o = <<>>
is_some(o) == o # <<>>
unwrap(o) == o[1]

\* Sequences over S of length at most n.
SeqUpTo(S, n) == UNION {[1..k -> S] : k \in 0..n}

(***************************************************************************)
(* Program constants.                                                      *)
(***************************************************************************)
\* main: let interval = Duration::from_secs(1)
interval == 1
\* main: let ratelimit_interval = Duration::from_secs(65)
ratelimit_interval == 65
\* attempt_purchase: if error.code == 27
RATELIMIT_CODE == 27
\* purchase_asset: expected_currency: 1
expected_currency == 1
\* purchase_asset: expected_price: 0
expected_price == 0
\* is_asset_available: asset.creator_target_id == 1
RESERVED_CREATOR_ID == 1

(***************************************************************************)
(* MarketplaceQueryResponseItem.  name and item_type only feed the printed *)
(* status lines and are left out.  Three items: one of the reserved        *)
(* creator, one purchasable, one with no price.                            *)
(***************************************************************************)
item_reserved ==
    [id |-> 1, product_id |-> 11, creator_type |-> "User",
     creator_target_id |-> RESERVED_CREATOR_ID, price |-> Some(0)]

item_free ==
    [id |-> 2, product_id |-> 12, creator_type |-> "Group",
     creator_target_id |-> 1, price |-> Some(0)]

item_no_price ==
    [id |-> 3, product_id |-> 13, creator_type |-> "User",
     creator_target_id |-> 2, price |-> None]

MarketplaceQueryResponseItem == {item_reserved, item_free, item_no_price}

\* Args.auth, the credential given on the command line.
auth == "cookie"

\* Args.category and Args.subcategory, both optional.
category == Some("Accessories")
subcategory == None

\* The cursors the catalog server hands out; the empty string is one a
\* String can hold.
Cursors == {"", "c1"}

\* MarketplaceQueryResponse: next_page_cursor and data, both optional.
MarketplaceQueryResponse ==
    [next_page_cursor : {None} \cup {Some(c) : c \in Cursors},
     data : {None} \cup {Some(s) : s \in SeqUpTo(MarketplaceQueryResponseItem, MaxPageLen)}]

\* ApiError.code: the rate limit's code and one other code.
ApiError == {RATELIMIT_CODE, 5}

\* What purchase_asset and the decoding of its body can yield: no response
\* (Err of send), a body that does not decode as AssetPurchaseResponse, or
\* an AssetPurchaseResponse with its optional error list.
PurchaseOutcome ==
    { [kind |-> "transport_error", errors |-> None],
      [kind |-> "undecodable", errors |-> None] }
    \cup [kind : {"body"},
          errors : {None} \cup {Some(e) : e \in SeqUpTo(ApiError, MaxErrs)}]

\* What the page of get_csrf_token can carry: a csrf-token meta tag
\* with its data-token, or none.
CsrfMeta == {None, Some("tok")}

\* The answers to get_authenticated_user: the user's id, or a failure of the
\* request or of the decoding of its body.
WhoAmIAnswer == {"id", "error"}

\* The answers to the is-owned request: a failure of the request or of the
\* decoding of its body, JSON that is no boolean, or true or false.
IsOwnedAnswer == {"error", "not_bool", "true", "false"}

VARIABLES
    pc,                \* where the control thread is
    authenticated,     \* the server accepts the credential auth
    csrf_token,        \* main: csrf_token
    next_page_cursor,  \* main: next_page_cursor
    purchased_items,   \* main: purchased_items
    response,          \* main: response, the page being iterated
    idx,               \* position of the for loop in response.data
    depth,             \* attempt_purchase frames below the one main called
    exit,              \* how and where the process ended
    printed,           \* the tallies printed by "Done Bought {} items"
    url,               \* the search URL of the last catalog request
    \* history of the run
    home,              \* the csrf meta tag of the page get_csrf_token got
    used,              \* the cursors sent with the catalog requests so far
    reused,            \* a catalog request carried a cursor sent before
    handed_back,       \* a response's next cursor was one sent before
    fetches,           \* catalog pages fetched
    nonterminal,       \* fetched pages that had both data and a next cursor
    saw_terminal,      \* a fetched page had no data or no next cursor
    pending,           \* fetched items not yet handed to the filter
    in_order,          \* every item handed to the filter was the oldest pending
    successes,         \* items for which "Purchased" was reported
    \* history of the item at hand
    checked,           \* the item last handed to the filter
    own_answers,       \* the answers to the requests of its ownership check
    owns,              \* the answer of the ownership check
    requests,          \* the last MaxRetries + 1 purchase requests for the item
    last,              \* the last outcome of purchase_asset for the item
    sleeps,            \* thread::sleep calls since that outcome (or since the call)
    reports,           \* "Failed to purchase" lines since that outcome
    fails,             \* transport failures in a row, up to now
    returned,          \* what attempt_purchase returned to main
    \* the scripted run of the end-to-end scenario
    on_script,         \* every answer of the server so far was the script's
    script_calls       \* the network calls of the loop, counted while on_script

vars == <<pc, authenticated, csrf_token, next_page_cursor, purchased_items,
          response, idx, depth, exit, printed, url, home, used, reused, handed_back,
          fetches, nonterminal, saw_terminal, pending, in_order, successes, checked,
          own_answers, owns, requests, last, sleeps, reports, fails, returned,
          on_script, script_calls>>

page_hist == <<used, reused, handed_back, fetches, nonterminal, saw_terminal,
               pending, in_order>>
item_hist == <<checked, own_answers, owns, requests, last, sleeps, reports, fails,
               returned>>

\* The network calls of the loop other than the page fetches: calls of
\* authenticated_user_owns_bundle, its two requests, and purchase requests.
no_calls == [own_checks |-> 0, whoami |-> 0, is_owned |-> 0, purchase |-> 0]

Init ==
    /\ pc = "boot"
    /\ authenticated \in BOOLEAN
    /\ home = None
    /\ used = {}
    /\ reused = FALSE
    /\ handed_back = FALSE
    /\ own_answers = <<>>
    /\ on_script = TRUE
    /\ script_calls = no_calls
    /\ csrf_token = ""
    /\ next_page_cursor = None
    /\ purchased_items = 0
    /\ response = [next_page_cursor |-> None, data |-> None]
    /\ idx = 1
    /\ depth = 0
    /\ exit = "running"
    /\ printed = <<>>
    /\ url = None
    /\ fetches = 0
    /\ nonterminal = 0
    /\ saw_terminal = FALSE
    /\ pending = <<>>
    /\ in_order = TRUE
    /\ successes = 0
    /\ checked = None
    /\ owns = None
    /\ requests = <<>>
    /\ last = None
    /\ sleeps = <<>>
    /\ reports = 0
    /\ fails = 0
    /\ returned = "nothing"

(***************************************************************************)
(* The scripted server of the end-to-end scenario: the first page has a    *)
(* next cursor and two items, the second page has no data; the first item  *)
(* is owned by the caller, the second is not; a purchase succeeds at once. *)
(***************************************************************************)
script_page(n) ==
    IF n = 1
    THEN [next_page_cursor |-> Some("c1"), data |-> Some(<<item_no_price, item_free>>)]
    ELSE [next_page_cursor |-> None, data |-> None]

script_owned(asset) == IF asset = item_no_price THEN "true" ELSE "false"

script_outcome == [kind |-> "body", errors |-> None]

\* The server's answer was the script's or not, and the calls made for it.
script_step(as_scripted, own_checks, whoami, is_owned, purchase) ==
    /\ on_script' = (on_script /\ as_scripted)
    /\ script_calls' =
         IF on_script /\ as_scripted
         THEN [own_checks |-> script_calls.own_checks + own_checks,
               whoami |-> script_calls.whoami + whoami,
               is_owned |-> script_calls.is_owned + is_owned,
               purchase |-> script_calls.purchase + purchase]
         ELSE no_calls

(***************************************************************************)
(* get_csrf_token, called by main before the loop.  The page either fails  *)
(* to arrive (the ? of main ends the process), or carries a csrf-token     *)
(* meta tag with a data-token, or carries none: then the token is empty.   *)
(* The status of the answer is not looked at: a server that rejects the    *)
(* credential answers with a page like any other.                          *)
(***************************************************************************)
\* get_csrf_token: the scan of the document, String::new() without a match.
scan_csrf_token(meta) == IF is_some(meta) THEN unwrap(meta) ELSE ""

\* A bootstrap that fails when the document carries no token.
get_csrf_token_strict ==
    /\ pc = "boot"
    /\ \/ /\ pc' = "exited"
          /\ exit' = "error_bootstrap"
          /\ UNCHANGED <<csrf_token, home>>
          /\ script_step(FALSE, 0, 0, 0, 0)
       \/ \E meta \in CsrfMeta :
            /\ home' = Some(meta)
            /\ script_step(TRUE, 0, 0, 0, 0)
            /\ IF is_some(meta)
               THEN /\ csrf_token' = unwrap(meta)
                    /\ pc' = "fetch"
                    /\ UNCHANGED exit
               ELSE /\ pc' = "exited"
                    /\ exit' = "error_bootstrap"
                    /\ UNCHANGED csrf_token
    /\ UNCHANGED <<authenticated, next_page_cursor, purchased_items, response,
                   idx, depth, printed, url, successes>>
    /\ UNCHANGED page_hist
    /\ UNCHANGED item_hist

get_csrf_token ==
    /\ pc = "boot"
    /\ \/ /\ pc' = "exited"
          /\ exit' = "error_bootstrap"
          /\ UNCHANGED <<csrf_token, home>>
          /\ script_step(FALSE, 0, 0, 0, 0)
       \/ \E meta \in CsrfMeta :
            /\ home' = Some(meta)
            /\ csrf_token' = scan_csrf_token(meta)
            /\ pc' = "fetch"
            /\ UNCHANGED exit
            /\ script_step(TRUE, 0, 0, 0, 0)
    /\ UNCHANGED <<authenticated, next_page_cursor, purchased_items, response,
                   idx, depth, printed, url, successes>>
    /\ UNCHANGED page_hist
    /\ UNCHANGED item_hist

(***************************************************************************)
(* main, the two tests that leave the loop, and the test of the for loop.  *)
(***************************************************************************)
\* main: response.data.is_none()
data_is_none(r) == is_none(r.data)

\* main: response.next_page_cursor.is_none()
cursor_is_none_never(r) == FALSE

cursor_is_none(r) == is_none(r.next_page_cursor)

\* main: for asset in response.data.unwrap().iter(), is there a next item
for_has_next_skips_last(i, data) == i < Len(data)

for_has_next(i, data) == i <= Len(data)

\* get_search_url: the query of the catalog request; an absent category,
\* subcategory or cursor is sent as the empty string.
get_search_url(cat, subcat, cursor) ==
    [category |-> IF is_none(cat) THEN "" ELSE unwrap(cat),
     subcategory |-> IF is_none(subcat) THEN "" ELSE unwrap(subcat),
     maxPrice |-> 0,
     limit |-> 120,
     cursor |-> IF is_none(cursor) THEN "" ELSE unwrap(cursor)]

\* A page after which the catalog ends: no data, or no next cursor.
is_terminal(r) == is_none(r.data) \/ is_none(r.next_page_cursor)

(***************************************************************************)
(* main, head of the loop: one catalog page is requested with the cursor   *)
(* at hand.  A failed or undecodable answer ends the process through ?;    *)
(* a page without data prints the tally and leaves the loop.  The server   *)
(* serves at most MaxFetches pages: the last one it may serve is terminal. *)
(***************************************************************************)
fetch_page ==
    /\ pc = "fetch"
    /\ url' = Some(get_search_url(category, subcategory, next_page_cursor))
    /\ used' = used \cup {unwrap(url').cursor}
    /\ reused' = (reused \/ unwrap(url').cursor \in used)
    /\ \/ /\ pc' = "exited"
          /\ exit' = "error_fetch"
          /\ UNCHANGED <<response, idx, printed>>
          /\ UNCHANGED <<handed_back, fetches, nonterminal, saw_terminal, pending,
                         in_order>>
          /\ script_step(FALSE, 0, 0, 0, 0)
       \/ \E r \in MarketplaceQueryResponse :
            /\ fetches + 1 >= MaxFetches => is_terminal(r)
            /\ script_step(r = script_page(fetches + 1), 0, 0, 0, 0)
            /\ response' = r
            /\ fetches' = fetches + 1
            /\ handed_back' = (handed_back \/ (is_some(r.next_page_cursor)
                                   /\ unwrap(r.next_page_cursor) \in used'))
            /\ nonterminal' = IF is_terminal(r) THEN nonterminal ELSE nonterminal + 1
            /\ saw_terminal' = (saw_terminal \/ is_terminal(r))
            /\ pending' = IF is_none(r.data) THEN pending ELSE pending \o unwrap(r.data)
            /\ UNCHANGED in_order
            /\ IF data_is_none(r)
               THEN /\ printed' = Append(printed, purchased_items)
                    /\ pc' = "exited"
                    /\ exit' = "done"
                    /\ UNCHANGED idx
               ELSE /\ idx' = 1
                    /\ pc' = "loop"
                    /\ UNCHANGED <<printed, exit>>
    /\ UNCHANGED <<authenticated, csrf_token, next_page_cursor, purchased_items,
                   depth, successes, home>>
    /\ UNCHANGED item_hist

(***************************************************************************)
(* is_asset_available, given the answer of authenticated_user_owns_bundle. *)
(***************************************************************************)
is_asset_available_any_creator(user_owns_bundle, asset) ==
    IF user_owns_bundle THEN FALSE ELSE TRUE

is_asset_available_ignores_owned(user_owns_bundle, asset) ==
    IF asset.creator_type = "User" /\ asset.creator_target_id = RESERVED_CREATOR_ID
    THEN FALSE
    ELSE TRUE

is_asset_available(user_owns_bundle, asset) ==
    IF user_owns_bundle
    THEN FALSE
    ELSE IF asset.creator_type = "User" /\ asset.creator_target_id = RESERVED_CREATOR_ID
         THEN FALSE
         ELSE TRUE

(***************************************************************************)
(* authenticated_user_owns_bundle, given the answers to its two requests:  *)
(* a failure of either goes up through ? as Err; an is-owned answer that   *)
(* is no boolean makes as_bool().unwrap() panic; else Ok of the boolean.   *)
(* Without a user id the is-owned request is not sent ("unasked").         *)
(***************************************************************************)
authenticated_user_owns_bundle_lenient(whoami, is_owned) ==
    IF whoami = "error" \/ is_owned = "error"
    THEN [kind |-> "Ok", value |-> FALSE]
    ELSE IF is_owned = "not_bool"
         THEN [kind |-> "panic", value |-> FALSE]
         ELSE [kind |-> "Ok", value |-> (is_owned = "true")]

authenticated_user_owns_bundle(whoami, is_owned) ==
    IF whoami = "error" \/ is_owned = "error"
    THEN [kind |-> "Err", value |-> FALSE]
    ELSE IF is_owned = "not_bool"
         THEN [kind |-> "panic", value |-> FALSE]
         ELSE [kind |-> "Ok", value |-> (is_owned = "true")]

(***************************************************************************)
(* main, one turn of the for loop up to the call of attempt_purchase: the  *)
(* ownership check of the next item and the filter's decision.  An Err of  *)
(* the check goes through the ? of is_asset_available and of main and ends *)
(* the process.  A server that rejects the credential gives no user id.    *)
(***************************************************************************)
check_asset ==
    /\ pc = "loop"
    /\ for_has_next(idx, unwrap(response.data))
    /\ LET asset == unwrap(response.data)[idx] IN
       /\ in_order' = (in_order /\ pending # <<>> /\ Head(pending) = asset)
       /\ pending' = IF pending = <<>> THEN pending ELSE Tail(pending)
       /\ checked' = Some(asset)
       /\ requests' = <<>>
       /\ last' = None
       /\ sleeps' = <<>>
       /\ reports' = 0
       /\ fails' = 0
       /\ returned' = "nothing"
       /\ \E whoami \in WhoAmIAnswer :
          \E is_owned \in IF whoami = "error" THEN {"unasked"} ELSE IsOwnedAnswer :
            /\ ~authenticated => whoami = "error"
            /\ own_answers' = IF whoami = "error" THEN <<whoami>> ELSE <<whoami, is_owned>>
            /\ script_step(is_owned = script_owned(asset), 1, 1,
                           IF whoami = "error" THEN 0 ELSE 1, 0)
            /\ LET result == authenticated_user_owns_bundle(whoami, is_owned) IN
               CASE result.kind = "Err" ->
                      /\ pc' = "exited"
                      /\ exit' = "error_eligibility"
                      /\ owns' = None
                      /\ UNCHANGED idx
                 [] result.kind = "panic" ->
                      /\ pc' = "exited"
                      /\ exit' = "panic_eligibility"
                      /\ owns' = None
                      /\ UNCHANGED idx
                 [] OTHER ->
                      /\ owns' = Some(result.value)
                      /\ UNCHANGED exit
                      /\ IF is_asset_available(result.value, asset)
                         THEN /\ pc' = "attempt"
                              /\ UNCHANGED idx
                         ELSE /\ pc' = "loop"
                              /\ idx' = idx + 1
    /\ UNCHANGED <<authenticated, csrf_token, next_page_cursor, purchased_items,
                   response, depth, printed, url, successes, home, used, reused,
                   handed_back, fetches, nonterminal, saw_terminal>>

(***************************************************************************)
(* purchase_asset: the request it sends.                                   *)
(***************************************************************************)
purchase_asset(asset, cookie, token) ==
    [product_id |-> asset.product_id,
     expected_currency |-> expected_currency,
     expected_price |-> expected_price,
     expected_seller_id |-> asset.creator_target_id,
     cookie |-> cookie,
     csrf |-> token]

\* attempt_purchase: asset.price.is_none()
has_no_price_never(asset) == FALSE

has_no_price(asset) == is_none(asset.price)

(***************************************************************************)
(* attempt_purchase from its entry to the await of purchase_asset: an item *)
(* without price is reported and Ok(()) returned, through every frame of   *)
(* the recursion, to main, which adds 1 to purchased_items and goes on to  *)
(* the next item; else the request is sent.  Of the requests sent for an   *)
(* item the last MaxRetries + 1 are kept.                                  *)
(***************************************************************************)
attempt_purchase ==
    /\ pc = "attempt"
    /\ LET asset == unwrap(response.data)[idx] IN
       IF has_no_price(asset)
       THEN /\ returned' = "Ok"
            /\ depth' = 0
            /\ purchased_items' = purchased_items + 1
            /\ idx' = idx + 1
            /\ pc' = "loop"
            /\ UNCHANGED requests
            /\ script_step(TRUE, 0, 0, 0, 0)
       ELSE /\ requests' = Append(IF Len(requests) > MaxRetries
                                   THEN Tail(requests)
                                   ELSE requests,
                                   purchase_asset(asset, auth, csrf_token))
            /\ pc' = "awaiting"
            /\ UNCHANGED <<returned, depth, purchased_items, idx>>
            /\ script_step(TRUE, 0, 0, 0, 1)
    /\ UNCHANGED <<authenticated, csrf_token, next_page_cursor, response, exit,
                   printed, url, successes, home, checked, own_answers, owns, last,
                   sleeps, reports, fails>>
    /\ UNCHANGED page_hist

(***************************************************************************)
(* attempt_purchase, the walk over the error list: one sleep of            *)
(* ratelimit_interval per entry of code 27, one report per other entry.    *)
(***************************************************************************)
RECURSIVE error_sleeps_short(_)
error_sleeps_short(errors) ==
    IF errors = <<>> THEN <<>>
    ELSE IF Head(errors) = RATELIMIT_CODE
         THEN <<interval>> \o error_sleeps_short(Tail(errors))
         ELSE error_sleeps_short(Tail(errors))

\* A walk that cools down once for the whole list.
error_sleeps_once(errors) ==
    IF \E i \in DOMAIN errors : errors[i] = RATELIMIT_CODE
    THEN <<ratelimit_interval>>
    ELSE <<>>

RECURSIVE error_sleeps(_)
error_sleeps(errors) ==
    IF errors = <<>> THEN <<>>
    ELSE IF Head(errors) = RATELIMIT_CODE
         THEN <<ratelimit_interval>> \o error_sleeps(Tail(errors))
         ELSE error_sleeps(Tail(errors))

RECURSIVE error_reports(_)
error_reports(errors) ==
    IF errors = <<>> THEN 0
    ELSE IF Head(errors) = RATELIMIT_CODE
         THEN error_reports(Tail(errors))
         ELSE 1 + error_reports(Tail(errors))

\* attempt_purchase: purchase_body.errors.is_some()
takes_error_path(body) == is_some(body.errors)

\* The outcomes after which attempt_purchase calls itself.
retries(o) == o.kind = "transport_error" \/ (o.kind = "body" /\ takes_error_path(o))

(***************************************************************************)
(* attempt_purchase from the outcome of purchase_asset on, branch by       *)
(* branch.                                                                 *)
(***************************************************************************)
\* A transport failure that is answered by giving the item up.
on_transport_error_gives_up ==
    /\ reports' = 1
    /\ sleeps' = <<>>
    /\ fails' = fails + 1
    /\ depth' = 0
    /\ returned' = "Ok"
    /\ purchased_items' = purchased_items + 1
    /\ idx' = idx + 1
    /\ pc' = "loop"
    /\ UNCHANGED <<exit, successes>>

\* No response (the else of if let Ok): report, and recurse at once.
on_transport_error ==
    /\ reports' = 1
    /\ sleeps' = <<>>
    /\ fails' = fails + 1
    /\ depth' = depth + 1
    /\ pc' = "attempt"
    /\ UNCHANGED <<returned, purchased_items, idx, exit, successes>>

\* The body does not decode: the ? returns the error through every frame
\* of the recursion to main, whose ? ends the process.
on_undecodable ==
    /\ reports' = 0
    /\ sleeps' = <<>>
    /\ fails' = 0
    /\ depth' = 0
    /\ returned' = "Err"
    /\ pc' = "exited"
    /\ exit' = "error_attempt"
    /\ UNCHANGED <<purchased_items, idx, successes>>

\* An error list that is answered by giving the item up.
on_errors_gives_up(errors) ==
    /\ reports' = error_reports(errors)
    /\ sleeps' = error_sleeps(errors)
    /\ fails' = 0
    /\ depth' = 0
    /\ returned' = "Ok"
    /\ purchased_items' = purchased_items + 1
    /\ idx' = idx + 1
    /\ pc' = "loop"
    /\ UNCHANGED <<exit, successes>>

\* The body has an error list: walk it, and recurse.
on_errors(errors) ==
    /\ reports' = error_reports(errors)
    /\ sleeps' = error_sleeps(errors)
    /\ fails' = 0
    /\ depth' = depth + 1
    /\ pc' = "attempt"
    /\ UNCHANGED <<returned, purchased_items, idx, exit, successes>>

\* A purchase that is counted once by every frame of the recursion.
on_purchased_counts_frames ==
    /\ reports' = 0
    /\ sleeps' = <<interval>>
    /\ fails' = 0
    /\ successes' = successes + 1
    /\ depth' = 0
    /\ returned' = "Ok"
    /\ purchased_items' = purchased_items + depth + 1
    /\ idx' = idx + 1
    /\ pc' = "loop"
    /\ UNCHANGED exit

\* The body has no error list: report the purchase, sleep interval, return
\* Ok(()) through every frame to main, which adds 1 to purchased_items.
on_purchased ==
    /\ reports' = 0
    /\ sleeps' = <<interval>>
    /\ fails' = 0
    /\ successes' = successes + 1
    /\ depth' = 0
    /\ returned' = "Ok"
    /\ purchased_items' = purchased_items + 1
    /\ idx' = idx + 1
    /\ pc' = "loop"
    /\ UNCHANGED exit

\* The recursion is cut at MaxRetries: then the server answers for good.
purchase_outcome ==
    /\ pc = "awaiting"
    /\ \E o \in PurchaseOutcome :
         /\ retries(o) => depth < MaxRetries
         /\ last' = Some(o)
         /\ script_step(o = script_outcome, 0, 0, 0, 0)
         /\ CASE o.kind = "transport_error" -> on_transport_error
              [] o.kind = "undecodable" -> on_undecodable
              [] o.kind = "body" /\ takes_error_path(o) -> on_errors(unwrap(o.errors))
              [] OTHER -> on_purchased
    /\ UNCHANGED <<authenticated, csrf_token, next_page_cursor, response,
                   printed, url, home, checked, own_answers, owns, requests>>
    /\ UNCHANGED page_hist

\* main: next_page_cursor = response.next_page_cursor
cursor_after_stays(current, r) == current

cursor_after(current, r) == r.next_page_cursor

(***************************************************************************)
(* main, after the for loop: without a next cursor the tally is printed    *)
(* and the loop left; else the cursor is taken over for the next fetch.    *)
(***************************************************************************)
end_of_page ==
    /\ pc = "loop"
    /\ ~for_has_next(idx, unwrap(response.data))
    /\ IF cursor_is_none(response)
       THEN /\ printed' = Append(printed, purchased_items)
            /\ pc' = "exited"
            /\ exit' = "done"
            /\ UNCHANGED next_page_cursor
       ELSE /\ next_page_cursor' = cursor_after(next_page_cursor, response)
            /\ pc' = "fetch"
            /\ UNCHANGED <<printed, exit>>
    /\ UNCHANGED <<authenticated, csrf_token, purchased_items, response, idx,
                   depth, url, successes, home, on_script, script_calls>>
    /\ UNCHANGED page_hist
    /\ UNCHANGED item_hist

Next ==
    \/ get_csrf_token
    \/ fetch_page
    \/ check_asset
    \/ attempt_purchase
    \/ purchase_outcome
    \/ end_of_page

Spec == Init /\ [][Next]_vars

(***************************************************************************)
(* The recursion of attempt_purchase has no bound of its own.  Beyond      *)
(* MaxRetries the depth is no longer counted: a body with an error list,   *)
(* empty or not, is walked and answered by one more recursive call, which  *)
(* sends the request again.                                                *)
(***************************************************************************)
purchase_outcome_past_bound ==
    /\ pc = "awaiting"
    /\ depth = MaxRetries
    /\ \E o \in PurchaseOutcome :
         /\ o.kind = "body"
         /\ takes_error_path(o)
         /\ last' = Some(o)
         /\ reports' = error_reports(unwrap(o.errors))
         /\ sleeps' = error_sleeps(unwrap(o.errors))
    /\ fails' = 0
    /\ pc' = "attempt"
    /\ script_step(FALSE, 0, 0, 0, 0)
    /\ UNCHANGED <<depth, returned, purchased_items, idx, exit, successes>>
    /\ UNCHANGED <<authenticated, csrf_token, next_page_cursor, response,
                   printed, url, home, checked, own_answers, owns, requests>>
    /\ UNCHANGED page_hist

FairNext ==
    \/ Next
    \/ purchase_outcome_past_bound

\* The process is sequential and every request is answered or fails: a step
\* that can be taken is taken.
FairSpec == Init /\ [][FairNext]_vars /\ WF_vars(FairNext)

(***************************************************************************)
(* The claims.                                                             *)
(***************************************************************************)
\* The attempt of the item at hand is under way or has returned.
attempted == pc \in {"attempt", "awaiting"} \/ returned # "nothing"

\* A decoded purchase response that carries no error entry.
no_errors(o) == o.kind = "body" /\ (o.errors = None \/ o.errors = Some(<<>>))

\* C1: the tally is the number of items whose purchase succeeded: +1 for
\* every item that reached "Purchased", +0 for every skipped item (owned,
\* reserved creator, no price); so is every tally that is printed.
C1_TallyIsSuccesses ==
    /\ purchased_items = successes
    /\ \A i \in DOMAIN printed : printed[i] = successes

\* C2: when attempt_purchase has returned Ok to main, a purchase request for
\* the item was issued and its answer carried no errors.
C2_OkMeansPurchased ==
    returned = "Ok" =>
        /\ requests # <<>>
        /\ is_some(last)
        /\ no_errors(unwrap(last))

\* C3: for an item without price no purchase request is issued, no sleep is
\* performed, and the attempt ends at once: no recursion, no pending request.
C3_NoPriceSkipped ==
    (is_some(checked) /\ unwrap(checked).price = None) =>
        /\ requests = <<>>
        /\ sleeps = <<>>
        /\ last = None
        /\ depth = 0
        /\ pc # "awaiting"
        /\ returned \in {"nothing", "Ok"}

C3_Witness ==
    /\ is_some(checked)
    /\ unwrap(checked).price = None
    /\ returned = "Ok"
    /\ pc = "loop"

\* C4: attempt_purchase is invoked only for an item whose ownership check
\* answered false and whose creator is not (type "User", id 1).
C4_OnlyEligibleAttempted ==
    (attempted \/ requests # <<>>) =>
        /\ owns = Some(FALSE)
        /\ ~(unwrap(checked).creator_type = "User" /\ unwrap(checked).creator_target_id = 1)

\* A reserved-creator item, not owned and priced, has been passed over.
C4_Witness ==
    /\ is_some(checked)
    /\ unwrap(checked).creator_type = "User"
    /\ unwrap(checked).creator_target_id = 1
    /\ unwrap(checked).price # None
    /\ owns = Some(FALSE)
    /\ pc = "loop"
    /\ ~attempted

\* C5: the items handed to the filter are the items of the fetched pages,
\* page after page and in list order: every item handed over is the oldest
\* fetched item not yet handed over, and when the run ends with the tally
\* none is left over.
C5_EveryItemOnceInOrder ==
    /\ in_order
    /\ exit = "done" => pending = <<>>

\* A run of two pages ends on a page with data and no next cursor.
C5_Witness ==
    /\ exit = "done"
    /\ fetches >= 2
    /\ is_some(response.data)
    /\ Len(unwrap(response.data)) >= 2
    /\ is_none(response.next_page_cursor)
    /\ pending = <<>>
    /\ in_order

\* C6 as stated: after N non-terminal pages and one terminal page, the run
\* has ended with exactly N pages fetched.
C6_ExactlyNFetched ==
    exit = "done" => fetches = nonterminal

\* C6 as amended: the loop is left with the tally if and only if a fetched
\* page had no next cursor or no data: no page is fetched after such a page,
\* a run that has ended with the tally has seen one, and after N
\* non-terminal pages and the terminal page exactly N + 1 pages were fetched.
C6_TerminalPageIsFetched ==
    /\ pc = "fetch" => ~saw_terminal
    /\ saw_terminal => fetches = nonterminal + 1
    /\ ~saw_terminal => fetches = nonterminal
    /\ exit = "done" => saw_terminal
    /\ (saw_terminal /\ pc = "exited") => exit # "error_fetch"

\* One non-terminal page, then a terminal page: two pages fetched.
C6_Witness ==
    /\ exit = "done"
    /\ nonterminal = 1
    /\ fetches = 2

\* The set of the elements of a sequence.
Range(q) == {q[i] : i \in DOMAIN q}

\* The request the retries of the item at hand have to repeat.
expected_request ==
    [product_id |-> unwrap(checked).product_id,
     expected_currency |-> 1,
     expected_price |-> 0,
     expected_seller_id |-> unwrap(checked).creator_target_id,
     cookie |-> auth,
     csrf |-> csrf_token]

\* C7: after a response with an error of code 27 the executor has slept the
\* 65-second cool-down (and no other duration) and the request it issues
\* next equals the one before, field by field; after a response without an
\* error list it has slept 1 second once, the attempt has returned and no
\* request is pending.
C7_CoolDownThenSameRequest ==
    /\ \A i \in DOMAIN requests : requests[i] = expected_request
    /\ (is_some(last) /\ unwrap(last).kind = "body" /\ is_some(unwrap(last).errors)
            /\ 27 \in Range(unwrap(unwrap(last).errors))) =>
        /\ sleeps # <<>>
        /\ Range(sleeps) = {65}
        /\ pc \in {"attempt", "awaiting"}
        /\ pc = "awaiting" =>
              /\ Len(requests) >= 2
              /\ requests[Len(requests)] = requests[Len(requests) - 1]
    /\ (is_some(last) /\ unwrap(last).kind = "body" /\ unwrap(last).errors = None) =>
        /\ sleeps = <<1>>
        /\ returned = "Ok"
        /\ pc \notin {"attempt", "awaiting"}

\* The request has been reissued after a rate-limit response.
C7_Witness ==
    /\ pc = "awaiting"
    /\ last = Some([kind |-> "body", errors |-> Some(<<27>>)])
    /\ sleeps = <<65>>
    /\ Len(requests) = 2

\* C8: a response that carries no error entry, whatever the shape of its
\* optional error list (absent or empty), ends the attempt as a success:
\* the purchase is reported, 1 second is slept, Ok is returned and no
\* retry follows.
C8_NoErrorsIsSuccess ==
    (is_some(last) /\ no_errors(unwrap(last))) =>
        /\ returned = "Ok"
        /\ sleeps = <<1>>
        /\ pc \notin {"attempt", "awaiting"}

\* A failure of the attempt: no response, no decodable body, or an error.
is_failure(o) == o.kind \in {"transport_error", "undecodable"} \/ ~no_errors(o)

\* C9: no failure that arises in an item's acquisition attempt ends the
\* process: after it the attempt is being retried.
C9_AttemptFailureRetries ==
    /\ exit # "error_attempt"
    /\ (is_some(last) /\ is_failure(unwrap(last))) =>
          /\ exit = "running"
          /\ pc \in {"attempt", "awaiting"}

\* C10, every state: while the last k outcomes were transport failures the
\* attempt goes on (not given up, not skipped, process not ended), nothing
\* was slept since, and once the request is out at least k + 1 were issued.
C10_Inv ==
    fails > 0 =>
        /\ pc \in {"attempt", "awaiting"}
        /\ exit = "running"
        /\ returned = "nothing"
        /\ sleeps = <<>>
        /\ depth >= fails
        /\ Len(requests) >= fails + (IF pc = "awaiting" THEN 1 ELSE 0)

\* C10, every step: a transport failure puts the executor back at the entry
\* of attempt_purchase (the no-price check) without a sleep, and from there
\* the next step issues one more request.
C10_Step ==
    /\ (pc = "awaiting" /\ is_some(last') /\ unwrap(last').kind = "transport_error") =>
          /\ pc' = "attempt"
          /\ sleeps' = <<>>
          /\ purchased_items' = purchased_items
          /\ fails' = fails + 1
    /\ (pc = "attempt" /\ fails > 0) =>
          /\ pc' = "awaiting"
          /\ Len(requests') = Len(requests) + 1

\* C10: a transport failure of the acquisition call is retried at once,
\* without a sleep and through the no-price check, however many came before.
C10_TransportFailureRetried == []C10_Inv /\ [][C10_Step]_vars

\* Request k + 1 is out after k = MaxRetries transport failures in a row.
C10_Witness ==
    /\ pc = "awaiting"
    /\ fails = MaxRetries
    /\ Len(requests) = MaxRetries + 1


\* A purchase response with a structured error of a code other than 27.
has_other_error(o) ==
    /\ o.kind = "body"
    /\ is_some(o.errors)
    /\ \E i \in DOMAIN unwrap(o.errors) : unwrap(o.errors)[i] # 27

\* C11, every state: after a response with an error of another code than 27
\* the failure has been reported and the attempt is on again: it has not
\* returned, the for loop is still at the same item, nothing was printed.
C11_Inv ==
    (is_some(last) /\ has_other_error(unwrap(last))) =>
        /\ reports >= 1
        /\ depth >= 1
        /\ pc \in {"attempt", "awaiting"}
        /\ returned = "nothing"
        /\ exit = "running"
        /\ printed = <<>>
        /\ unwrap(response.data)[idx] = unwrap(checked)

\* C11, every step: such a response makes attempt_purchase call itself, with
\* no item checked, no page fetched, no tally counted or printed; and the
\* step after it sends the request again.
C11_Step ==
    /\ (pc = "awaiting" /\ is_some(last') /\ has_other_error(unwrap(last'))) =>
          /\ pc' = "attempt"
          /\ depth' = depth + 1
          /\ idx' = idx
          /\ checked' = checked
          /\ fetches' = fetches
          /\ purchased_items' = purchased_items
          /\ printed' = printed
    /\ (pc = "attempt" /\ is_some(last) /\ has_other_error(unwrap(last))) =>
          /\ pc' = "awaiting"
          /\ Len(requests') = Len(requests) + 1

\* C11: a structured error of a code other than 27 is reported and the
\* attempt retried, whatever the code; so for as long as every purchase
\* request of an item is answered that way the attempt does not return, no
\* later item is checked, no page fetched and no tally printed.
C11_OtherErrorRetried == []C11_Inv /\ [][C11_Step]_vars

\* The request is out again after MaxRetries answers with another error.
C11_Witness ==
    /\ pc = "awaiting"
    /\ Len(requests) = MaxRetries + 1
    /\ last = Some([kind |-> "body", errors |-> Some(<<5>>)])
    /\ reports = 1


\* An answer to the ownership check of the item at hand was a failure.
own_check_failed == \E i \in DOMAIN own_answers : own_answers[i] = "error"

\* C12, every state: after a failed request of the ownership check the
\* process has ended with the error; neither request was sent twice, the
\* item has no verdict, no purchase request was issued for it, attempt_purchase
\* was not called and no tally was printed.
C12_Inv ==
    own_check_failed =>
        /\ pc = "exited"
        /\ exit = "error_eligibility"
        /\ Len(own_answers) <= 2
        /\ own_answers \in {<<"error">>, <<"id", "error">>}
        /\ owns = None
        /\ requests = <<>>
        /\ returned = "nothing"
        /\ printed = <<>>

\* C12, every step: the failing check leaves the tally, the for loop and the
\* page count as they were, and nothing happens once the process has ended.
C12_Step ==
    /\ own_check_failed' =>
          /\ purchased_items' = purchased_items
          /\ idx' = idx
          /\ fetches' = fetches
    /\ exit = "running"

\* C12: a failure of the ownership check (who-am-i or is-owned request)
\* ends the run with the error: no retry, no verdict "not eligible", no
\* purchase request, no further item or page, no increment of the tally.
C12_OwnershipFailureAborts == []C12_Inv /\ [][C12_Step]_vars

\* The is-owned request of an item failed after an earlier purchase.
C12_Witness ==
    /\ own_answers = <<"id", "error">>
    /\ exit = "error_eligibility"
    /\ purchased_items >= 1


\* C13: when the server rejects the credential, the bootstrap fails and the
\* process ends with the error before the loop starts: no catalog page is
\* fetched, no ownership check made and no purchase request issued.
C13_RejectedExitsAtStartup ==
    ~authenticated =>
        /\ pc = "boot" \/ (pc = "exited" /\ exit = "error_bootstrap")
        /\ fetches = 0
        /\ is_none(url)
        /\ own_answers = <<>>
        /\ requests = <<>>


\* C14, every step: the tally changes only by 1, only in the step in which
\* attempt_purchase returns Ok to main for the item at hand, and once it
\* has returned only the hand-over of the next item to the filter opens
\* another attempt.
C14_Step ==
    /\ purchased_items' # purchased_items =>
          /\ purchased_items' = purchased_items + 1
          /\ returned = "nothing"
          /\ returned' = "Ok"
          /\ checked' = checked
    /\ (returned # "nothing" /\ returned' = "nothing") =>
          /\ pending # <<>>
          /\ pending' = Tail(pending)
          /\ purchased_items' = purchased_items

\* C14: the tally is incremented at most once on account of an item,
\* however many retries its acquisition took.
C14_CountedAtMostOnce == [][C14_Step]_vars

\* An item that took MaxRetries retries has been counted: the tally is 1.
C14_Witness ==
    /\ returned = "Ok"
    /\ Len(requests) = MaxRetries + 1
    /\ successes = 1
    /\ purchased_items = 1


C16_StatedStep ==
    (pc = "fetch" /\ pc' # "fetch") =>
        /\ is_some(url')
        /\ fetches = 0 => unwrap(url').cursor = ""
        /\ fetches > 0 => /\ is_some(response.next_page_cursor)
                          /\ unwrap(url').cursor = unwrap(response.next_page_cursor)
        /\ pending = <<>>
        /\ unwrap(url').cursor \notin used

\* C16, as stated: the paginator is forward-only and no catalog request
\* ever carries a cursor that an earlier request carried.
C16_NeverReused == [][C16_StatedStep]_vars

\* C16 amended, every step: the first catalog request carries the empty cursor, every
\* later one the next cursor of the response before it, a request is sent
\* only when every item fetched so far has been processed, and a request
\* carries a cursor that an earlier request carried only if a response's
\* next cursor was one already sent (the empty string included).
C16_Step ==
    (pc = "fetch" /\ pc' # "fetch") =>
        /\ is_some(url')
        /\ fetches = 0 => unwrap(url').cursor = ""
        /\ fetches > 0 => /\ is_some(response.next_page_cursor)
                          /\ unwrap(url').cursor = unwrap(response.next_page_cursor)
        /\ pending = <<>>
        /\ unwrap(url').cursor \in used => handed_back

\* C16, amended: the paginator is forward-only; a cursor is sent again only
\* when the server handed back one that was already sent.
C16_ForwardOnly == [][C16_Step]_vars

\* A second page was asked for with the cursor of the first, after both
\* items of the first page were processed.
C16_Witness ==
    /\ fetches = 2
    /\ used = {"", "c1"}
    /\ ~reused
    /\ ~handed_back
    /\ nonterminal = 1
    /\ pending = <<>>
    /\ is_some(checked)


\* C17, every state: when the page got at bootstrap carries no csrf-token meta tag, the
\* token is the empty string, bootstrap does not fail and the run goes on to
\* the loop; every purchase request of the run, retries included, carries
\* the token of bootstrap, which no later step changes or fetches again.
C17_Inv ==
    is_some(home) =>
        /\ is_none(unwrap(home)) =>
              /\ csrf_token = ""
              /\ pc # "boot"
              /\ exit # "error_bootstrap"
        /\ is_some(unwrap(home)) => csrf_token = unwrap(unwrap(home))
        /\ \A i \in DOMAIN requests : requests[i].csrf = csrf_token

\* C17, every step: after bootstrap the token and the page it came from stay.
C17_Step ==
    pc # "boot" => /\ csrf_token' = csrf_token
                   /\ home' = home

\* C17: without a csrf-token meta tag the token is empty, bootstrap succeeds
\* and every purchase request carries that token, never fetched again.
C17_EmptyTokenFlowsOn == []C17_Inv /\ [][C17_Step]_vars

\* Without a tag at bootstrap, a purchase request and its retries were sent.
C17_Witness ==
    /\ home = Some(None)
    /\ pc = "awaiting"
    /\ Len(requests) = MaxRetries + 1
    /\ \A i \in DOMAIN requests : requests[i].csrf = ""


\* The last outcome is a body whose error list has at least one entry.
has_error_entries(o) ==
    o.kind = "body" /\ is_some(o.errors) /\ unwrap(o.errors) # <<>>

\* C18, every state: after a response with a non-empty error list there was
\* one sleep of 65 seconds per entry of code 27 and one failure report per
\* other entry, the attempt has not returned, and the requests issued for
\* the item are one per recursion depth: one retry per response.
C18_Inv ==
    (is_some(last) /\ has_error_entries(unwrap(last))) =>
        LET e == unwrap(unwrap(last).errors) IN
        /\ Len(sleeps) = Cardinality({i \in DOMAIN e : e[i] = 27})
        /\ \A i \in DOMAIN sleeps : sleeps[i] = 65
        /\ reports = Cardinality({i \in DOMAIN e : e[i] # 27})
        /\ pc \in {"attempt", "awaiting"}
        /\ returned = "nothing"
        /\ Len(requests) = depth + (IF pc = "awaiting" THEN 1 ELSE 0)

\* C18, every step: the response is answered by the whole walk and one
\* recursive call, without a request in between; the call then sends one
\* request, equal to the one before.
C18_Step ==
    /\ (pc = "awaiting" /\ is_some(last') /\ has_error_entries(unwrap(last'))) =>
          /\ pc' = "attempt"
          /\ depth' = depth + 1
          /\ requests' = requests
    /\ (pc = "attempt" /\ is_some(last) /\ has_error_entries(unwrap(last))) =>
          /\ pc' = "awaiting"
          /\ depth' = depth
          /\ Len(requests') = Len(requests) + 1
          /\ requests'[Len(requests')] = requests[Len(requests)]
          /\ sleeps' = sleeps
          /\ reports' = reports

\* C18: a non-empty error list is walked whole before the retry: a 65-second
\* sleep per entry of code 27, a failure report per other entry, then one
\* retry however long the list.
C18_WholeListThenOneRetry == []C18_Inv /\ [][C18_Step]_vars

\* Two entries of code 27 cost two cool-downs and one retry.
C18_Witness ==
    /\ pc = "awaiting"
    /\ last = Some([kind |-> "body", errors |-> Some(<<27, 27>>)])
    /\ sleeps = <<65, 65>>
    /\ reports = 0
    /\ Len(requests) = 2


\* From here on every answer to a purchase request decodes and carries no
\* error entry.
C19_ServerStoppedFailing == is_some(last) => no_errors(unwrap(last))

\* No request other than a purchase request has failed.
C19_NothingElseFailed == exit \in {"running", "done"}

\* C19: if from some point on the server answers every purchase request
\* with a decodable response that has no errors, a pending attempt
\* eventually returns; and if besides that no other request fails, the run
\* eventually prints the tally, exactly once, and exits normally.
C19_RetryLoopLive ==
    /\ <>[]C19_ServerStoppedFailing => (pc = "awaiting" ~> returned # "nothing")
    /\ (<>[]C19_ServerStoppedFailing /\ []C19_NothingElseFailed) =>
          /\ <>(exit = "done" /\ Len(printed) = 1)
          /\ [](Len(printed) <= 1)

====
